---- MODULE Spec2Model ----
(***************************************************************************)
(* Model of src/src/protocol.rs: the LSP client message layer.  The three  *)
(* builders (new_initialize, new_get_definition, new_initialized) and the  *)
(* two decoders (handle_initialize, handle_definition) are pure functions; *)
(* the state machine records one call at a time: the input handed over by  *)
(* the caller, and the value the function returned for it.                 *)
(***************************************************************************)
EXTENDS Integers, Sequences, FiniteSets, TLC

VARIABLES pc, input, output

vars == <<pc, input, output>>

(***************************************************************************)
(* Bounds of the model.                                                    *)
(***************************************************************************)
MaxLine == 1        \* lines and characters of well-formed positions: 0..MaxLine
MaxLocs == 2        \* longest JSON array handed over as `result`
MaxId == 1          \* request ids 0..MaxId
MaxFolders == 1     \* longest workspace_folders vector

(***************************************************************************)
(* serde_json::Value.  A value is a record tagged by its variant; an       *)
(* Object holds a function from its keys to values (a Map has unique       *)
(* keys), an Array a sequence.                                             *)
(***************************************************************************)
Null == [t |-> "null"]
Bool(b) == [t |-> "bool", v |-> b]
\* A number is held as a high word and a (signed) low part: the value is
\* hi * 2^32 + v.  Number(n) is a small integer; Wide(hi, n) with hi >= 1 is a
\* non-negative integer too large for 32 bits.
Number(n) == [t |-> "num", hi |-> 0, v |-> n]
Wide(hi, n) == [t |-> "num", hi |-> hi, v |-> n]
String(s) == [t |-> "str", v |-> s]
Array(s) == [t |-> "arr", v |-> s]
Object(f) == [t |-> "obj", v |-> f]

EmptyMap == [k \in {} |-> Null]

is_null(v) == v.t = "null"

(***************************************************************************)
(* Option<T> and Result<T, E>.                                             *)
(***************************************************************************)
None == [some |-> FALSE]
Some(x) == [some |-> TRUE, val |-> x]
is_some(o) == o.some

Ok(x) == [ok |-> TRUE, val |-> x]
Err(e) == [ok |-> FALSE, err |-> e]

(***************************************************************************)
(* The Rust values of Position, Range and Location.                        *)
(***************************************************************************)
Position(line, character) == [line |-> line, character |-> character]
Range(start, end) == [start |-> start, end |-> end]
Location(uri, range) == [uri |-> uri, range |-> range]

(***************************************************************************)
(* serde_json::from_value for the derived Deserialize of Position, Range   *)
(* and Location.  A derived struct deserializer accepts a JSON object      *)
(* (visit_map: every field must be present, unknown keys are ignored) and  *)
(* also a JSON array (visit_seq: the fields in declaration order, and the  *)
(* array must hold exactly as many elements as the struct has fields).     *)
(* Any other value is an invalid type.                                     *)
(***************************************************************************)
\* u32: a non-negative integer that fits 32 bits.
from_value_u32(v) ==
    IF v.t = "num" /\ v.hi = 0 /\ v.v >= 0 THEN Ok(v.v) ELSE Err("invalid u32")

from_value_String(v) ==
    IF v.t = "str" THEN Ok(v.v) ELSE Err("invalid type")

\* TRUE when v can be walked as a struct with the two fields k1, k2.
StructShape(v, k1, k2) ==
    \/ v.t = "obj" /\ {k1, k2} \subseteq DOMAIN v.v
    \/ v.t = "arr" /\ Len(v.v) = 2

\* The value of the i-th field, named k, of a struct-shaped v.
StructField(v, i, k) == IF v.t = "obj" THEN v.v[k] ELSE v.v[i]

from_value_Position(v) ==
    IF ~StructShape(v, "line", "character") THEN Err("invalid Position")
    ELSE LET line == from_value_u32(StructField(v, 1, "line"))
             character == from_value_u32(StructField(v, 2, "character"))
         IN  IF line.ok /\ character.ok
             THEN Ok(Position(line.val, character.val))
             ELSE Err("invalid Position")

\* Mutant: start and end exchanged.
from_value_Range_Swapped(v) ==
    IF ~StructShape(v, "start", "end") THEN Err("invalid Range")
    ELSE LET start == from_value_Position(StructField(v, 1, "start"))
             end == from_value_Position(StructField(v, 2, "end"))
         IN  IF start.ok /\ end.ok
             THEN Ok(Range(end.val, start.val))
             ELSE Err("invalid Range")

from_value_Range(v) ==
    IF ~StructShape(v, "start", "end") THEN Err("invalid Range")
    ELSE LET start == from_value_Position(StructField(v, 1, "start"))
             end == from_value_Position(StructField(v, 2, "end"))
         IN  IF start.ok /\ end.ok
             THEN Ok(Range(start.val, end.val))
             ELSE Err("invalid Range")

from_value_Location(v) ==
    IF ~StructShape(v, "uri", "range") THEN Err("invalid Location")
    ELSE LET uri == from_value_String(StructField(v, 1, "uri"))
             range == from_value_Range(StructField(v, 2, "range"))
         IN  IF uri.ok /\ range.ok
             THEN Ok(Location(uri.val, range.val))
             ELSE Err("invalid Location")

\* Mutant: the elements come out in reverse order.
from_value_Vec_Location_Reversed(v) ==
    IF v.t # "arr" THEN Err("invalid type")
    ELSE IF \A i \in 1..Len(v.v) : from_value_Location(v.v[i]).ok
         THEN Ok([i \in 1..Len(v.v) |-> from_value_Location(v.v[Len(v.v) + 1 - i]).val])
         ELSE Err("invalid Location in sequence")

\* Vec<Location>: only a JSON array, every element of which is a Location;
\* the elements are kept in the order of the array.
from_value_Vec_Location(v) ==
    IF v.t # "arr" THEN Err("invalid type")
    ELSE IF \A i \in 1..Len(v.v) : from_value_Location(v.v[i]).ok
         THEN Ok([i \in 1..Len(v.v) |-> from_value_Location(v.v[i]).val])
         ELSE Err("invalid Location in sequence")

(***************************************************************************)
(* ResponseMessage and its two decoders.  An error is the message of the   *)
(* anyhow error together with the value formatted into it.                 *)
(***************************************************************************)
ResponseMessage(id, result, error) ==
    [base_message |-> [jsonrpc |-> "2.0"], id |-> id, result |-> result, error |-> error]

ServerErrorMsg == "Error from LSP server: {:?}"
NotFoundMsg == "No definition found."
MalformedMsg == "Failed to parse definition location(s) from response."

bail(msg, arg) == Err([msg |-> msg, arg |-> arg])

\* Mutant: a response without a result is a failure too.
handle_initialize_RequiresResult(self) ==
    IF is_some(self.error) THEN bail(ServerErrorMsg, self.error)
    ELSE IF ~is_some(self.result) THEN bail(NotFoundMsg, None)
    ELSE Ok(<<>>)

handle_initialize(self) ==
    IF is_some(self.error) THEN bail(ServerErrorMsg, self.error)
    ELSE Ok(<<>>)

\* Mutant: an error that is JSON null counts as no error.
handle_definition_NullErrorIgnored(self) ==
    IF is_some(self.error) /\ ~is_null(self.error.val) THEN bail(ServerErrorMsg, self.error)
    ELSE IF is_some(self.result)
    THEN LET res == self.result.val IN
         IF is_null(res) THEN bail(NotFoundMsg, None)
         ELSE LET location == from_value_Location(res)
                  locations == from_value_Vec_Location(res)
              IN  IF location.ok THEN Ok(<<location.val>>)
                  ELSE IF locations.ok THEN Ok(locations.val)
                  ELSE bail(MalformedMsg, None)
    ELSE bail(NotFoundMsg, None)

\* Mutant: the null check on the result is missing.
handle_definition_NoNullCheck(self) ==
    IF is_some(self.error) THEN bail(ServerErrorMsg, self.error)
    ELSE IF is_some(self.result)
    THEN LET res == self.result.val IN
         LET location == from_value_Location(res)
             locations == from_value_Vec_Location(res)
         IN  IF location.ok THEN Ok(<<location.val>>)
             ELSE IF locations.ok THEN Ok(locations.val)
             ELSE bail(MalformedMsg, None)
    ELSE bail(NotFoundMsg, None)

handle_definition(self) ==
    IF is_some(self.error) THEN bail(ServerErrorMsg, self.error)
    ELSE IF is_some(self.result)
    THEN LET res == self.result.val IN
         IF is_null(res) THEN bail(NotFoundMsg, None)
         ELSE LET location == from_value_Location(res)
                  locations == from_value_Vec_Location(res)
              IN  IF location.ok THEN Ok(<<location.val>>)
                  ELSE IF locations.ok THEN Ok(locations.val)
                  ELSE bail(MalformedMsg, None)
    ELSE bail(NotFoundMsg, None)

(***************************************************************************)
(* The structs of the initialize parameters, with their Rust field names,  *)
(* and their derived Serialize (serde_json::to_value): every field is      *)
(* written under its serde name, Some(x) is written as x and None as null, *)
(* a Vec as an array in order.                                             *)
(***************************************************************************)
WorkspaceFolder(uri, name) == [uri |-> uri, name |-> name]

to_value_WorkspaceFolder(f) == Object([uri |-> String(f.uri), name |-> String(f.name)])

to_value_ClientInfo(c) == Object([name |-> String(c.name), version |-> String(c.version)])

to_value_Strings(s) == Array([i \in 1..Len(s) |-> String(s[i])])

to_value_CapabilitiesWorkspace(w) ==
    Object([workspaceFolders |-> Bool(w.workspace_folders),
            didChangeConfiguration |->
                Object([dynamicRegistration |->
                            Bool(w.did_change_configuration.dynamic_registration)]),
            workspaceEdit |->
                Object([documentChanges |-> Bool(w.workspace_edit.document_changes)]),
            configuration |-> Bool(w.configuration)])

to_value_CapabilitiesTextDocument(d) ==
    Object([hover |-> Object([contentFormat |-> to_value_Strings(d.hover.content_format)]),
            completion |->
                Object([completionItem |->
                            Object([snippetSupport |->
                                        Bool(d.completion.completion_item.snippet_support)])]),
            codeAction |->
                Object([codeActionLiteralSupport |->
                    Object([codeActionKind |->
                        Object([valueSet |->
                            to_value_Strings(d.code_action.code_action_literal_support
                                                .code_action_kind.value_set)])])])])

to_value_ClientCapabilities(c) ==
    Object([workspace |->
                IF is_some(c.workspace)
                THEN to_value_CapabilitiesWorkspace(c.workspace.val) ELSE Null,
            textDocument |->
                IF is_some(c.text_document)
                THEN to_value_CapabilitiesTextDocument(c.text_document.val) ELSE Null])

to_value_InitializeParams(p) ==
    Object([processId |-> Number(p.process_id),
            rootUri |-> String(p.root_uri),
            clientInfo |-> to_value_ClientInfo(p.client_info),
            capabilities |-> to_value_ClientCapabilities(p.capabilities),
            workspaceFolders |->
                IF is_some(p.workspace_folders)
                THEN Array([i \in 1..Len(p.workspace_folders.val) |->
                                to_value_WorkspaceFolder(p.workspace_folders.val[i])])
                ELSE Null])

(***************************************************************************)
(* RequestMessage and NotificationMessage, and their derived Serialize:    *)
(* the fields of base_message are flattened into the message's own object. *)
(***************************************************************************)
to_map_BaseMessage(b) == [jsonrpc |-> String(b.jsonrpc)]

to_value_RequestMessage(m) ==
    Object(to_map_BaseMessage(m.base_message) @@
           [id |-> m.id,
            notification |-> Number(m.notification),
            method |-> String(m.method),
            params |-> m.params])

\* Mutant: the notification is written with an `id` key holding null.
to_value_NotificationMessage_WithId(m) ==
    Object(to_map_BaseMessage(m.base_message) @@
           [id |-> Null, method |-> String(m.method), params |-> m.params])

to_value_NotificationMessage(m) ==
    Object(to_map_BaseMessage(m.base_message) @@
           [method |-> String(m.method), params |-> m.params])

(***************************************************************************)
(* The three builders.                                                     *)
(***************************************************************************)
\* The capabilities new_initialize advertises.
capabilities ==
    [workspace |->
        Some([workspace_folders |-> TRUE,
              did_change_configuration |-> [dynamic_registration |-> TRUE],
              workspace_edit |-> [document_changes |-> TRUE],
              configuration |-> TRUE]),
     text_document |->
        Some([hover |-> [content_format |-> <<"plaintext">>],
              completion |-> [completion_item |-> [snippet_support |-> TRUE]],
              code_action |->
                [code_action_literal_support |->
                    [code_action_kind |->
                        [value_set |-> <<"source.organizeImports",
                                         "refactor.rewrite",
                                         "refactor.extract">>]]]])]

\* Mutant: workspace folders are advertised only when some are given.
new_initialize_FoldersFlag(id, process_id, root_uri, client_name, client_version, workspace_folders) ==
    [base_message |-> [jsonrpc |-> "2.0"],
     id |-> Number(id),
     method |-> "initialize",
     notification |-> 0,
     params |-> to_value_InitializeParams(
                    [process_id |-> process_id,
                     root_uri |-> root_uri,
                     client_info |-> [name |-> client_name, version |-> client_version],
                     capabilities |->
                        [capabilities EXCEPT
                            !.workspace.val.workspace_folders = (workspace_folders # <<>>)],
                     workspace_folders |-> Some(workspace_folders)])]

new_initialize(id, process_id, root_uri, client_name, client_version, workspace_folders) ==
    LET client_info == [name |-> client_name, version |-> client_version]
    IN  [base_message |-> [jsonrpc |-> "2.0"],
         id |-> Number(id),
         method |-> "initialize",
         notification |-> 0,
         params |-> to_value_InitializeParams(
                        [process_id |-> process_id,
                         root_uri |-> root_uri,
                         client_info |-> client_info,
                         capabilities |-> capabilities,
                         workspace_folders |-> Some(workspace_folders)])]

\* Mutant: line and character exchanged.
new_get_definition_Swapped(id, uri, position) ==
    [base_message |-> [jsonrpc |-> "2.0"],
     id |-> Number(id),
     method |-> "textDocument/definition",
     notification |-> 0,
     params |-> Object([textDocument |-> Object([uri |-> String(uri)]),
                        position |-> Object([line |-> Number(position.character),
                                             character |-> Number(position.line)])])]

new_get_definition(id, uri, position) ==
    [base_message |-> [jsonrpc |-> "2.0"],
     id |-> Number(id),
     method |-> "textDocument/definition",
     notification |-> 0,
     params |-> Object([textDocument |-> Object([uri |-> String(uri)]),
                        position |-> Object([line |-> Number(position.line),
                                             character |-> Number(position.character)])])]

new_initialized ==
    [base_message |-> [jsonrpc |-> "2.0"],
     method |-> "initialized",
     params |-> Object(EmptyMap)]

(***************************************************************************)
(* The inputs the callers hand over.  Responses: every combination of an   *)
(* id, an error and a result, the result being absent, a well-formed       *)
(* Location object, a value of some other shape, or an array of at most    *)
(* MaxLocs elements.                                                       *)
(***************************************************************************)
Uris == {"file:///a", "file:///b"}
Lines == 0..MaxLine

PositionJson(l, c) == Object([line |-> Number(l), character |-> Number(c)])
RangeJson(s, e) == Object([start |-> s, end |-> e])
LocationJson(u, r) == Object([uri |-> String(u), range |-> r])

GoodPositions == {PositionJson(l, c) : l \in Lines, c \in Lines}
GoodRanges == {RangeJson(s, e) : s \in GoodPositions, e \in GoodPositions}
GoodLocations == {LocationJson(u, r) : u \in Uris, r \in GoodRanges}

\* Three distinct well-formed locations, used as the elements of arrays.
SampleRange == RangeJson(PositionJson(0, 1), PositionJson(1, 0))
LocA == LocationJson("file:///a", SampleRange)
LocB == LocationJson("file:///b", SampleRange)
LocC == LocationJson("file:///a", RangeJson(PositionJson(1, 1), PositionJson(1, 0)))
SampleLocations == {LocA, LocB, LocC}

\* Values that are not a well-formed Location object with exactly its fields.
OddValues ==
    { Null,
      Bool(TRUE),
      Number(1),
      String("file:///a"),
      Object(EmptyMap),
      Object([unexpected |-> String("shape")]),
      SampleRange,
      \* a Location with one more key
      Object([uri |-> String("file:///b"), range |-> SampleRange, extra |-> Number(1)]),
      \* range missing; uri not a string
      Object([uri |-> String("file:///a")]),
      Object([uri |-> Number(1), range |-> SampleRange]),
      \* a line that is negative; a line that does not fit 32 bits
      LocationJson("file:///a", RangeJson(PositionJson(-1, 0), PositionJson(1, 0))),
      LocationJson("file:///a",
                   RangeJson(Object([line |-> Wide(1, 0), character |-> Number(0)]),
                             PositionJson(1, 0))),
      \* character missing
      LocationJson("file:///a",
                   RangeJson(Object([line |-> Number(0)]), PositionJson(1, 0))),
      \* structs written as arrays of their fields
      LocationJson("file:///a", Array(<<PositionJson(0, 1), PositionJson(1, 0)>>)),
      LocationJson("file:///b",
                   RangeJson(Array(<<Number(0), Number(1)>>), PositionJson(1, 0))),
      Array(<<String("file:///b"), SampleRange>>) }

ArrayElements == SampleLocations \cup OddValues

SeqsUpTo(S, n) == UNION {[1..k -> S] : k \in 0..n}

Arrays == {Array(s) : s \in SeqsUpTo(ArrayElements, MaxLocs)}

ResultValues == GoodLocations \cup OddValues \cup Arrays

ErrorOptions ==
    { None,
      Some(Null),
      Some(Object([code |-> Number(-32601), message |-> String("Method not found")])) }

IdOptions == {None, Some(Number(1))}

Responses ==
    {ResponseMessage(id, result, error) :
        id \in IdOptions,
        result \in {None} \cup {Some(v) : v \in ResultValues},
        error \in ErrorOptions}

Ids == 0..MaxId
ProcessIds == {1, 4242}
RootUris == {"file://path/to/root", "file:///w"}
ClientNames == {"YourLSPClientName", "vim-go"}
ClientVersions == {"1.0.0", "0.1"}
Folders == { WorkspaceFolder("file://path/to/workspace", "file://path/to/workspace"),
             WorkspaceFolder("file:///w", "w") }
DocumentUris == Uris \cup {"file://path/to/code/main.go"}

InitializeInputs ==
    [op : {"new_initialize"}, id : Ids, process_id : ProcessIds, root_uri : RootUris,
     client_name : ClientNames, client_version : ClientVersions,
     workspace_folders : SeqsUpTo(Folders, MaxFolders)]

Inputs ==
    [op : {"handle_initialize", "handle_definition"}, self : Responses]
    \cup InitializeInputs
    \cup [op : {"new_get_definition"}, id : Ids, uri : DocumentUris,
          position : {Position(l, c) : l \in Lines, c \in Lines}]
    \cup [op : {"new_initialized"}]

NoInput == [op |-> "none"]
NoOutput == [none |-> TRUE]

(***************************************************************************)
(* The state machine: a caller holds an input (pc = "ready"), the function *)
(* it names runs and returns (pc = "done"), the caller takes the result    *)
(* (pc = "idle") and comes back with its next input.                       *)
(***************************************************************************)
Init ==
    /\ pc = "ready"
    /\ input \in Inputs
    /\ output = NoOutput

HandleInitialize ==
    /\ pc = "ready"
    /\ input.op = "handle_initialize"
    /\ output' = handle_initialize(input.self)
    /\ pc' = "done"
    /\ UNCHANGED input

HandleDefinition ==
    /\ pc = "ready"
    /\ input.op = "handle_definition"
    /\ output' = handle_definition(input.self)
    /\ pc' = "done"
    /\ UNCHANGED input

NewInitialize ==
    /\ pc = "ready"
    /\ input.op = "new_initialize"
    /\ output' = new_initialize(input.id, input.process_id, input.root_uri,
                                input.client_name, input.client_version,
                                input.workspace_folders)
    /\ pc' = "done"
    /\ UNCHANGED input

NewGetDefinition ==
    /\ pc = "ready"
    /\ input.op = "new_get_definition"
    /\ output' = new_get_definition(input.id, input.uri, input.position)
    /\ pc' = "done"
    /\ UNCHANGED input

NewInitialized ==
    /\ pc = "ready"
    /\ input.op = "new_initialized"
    /\ output' = new_initialized
    /\ pc' = "done"
    /\ UNCHANGED input

\* The caller takes the returned value; the message is consumed, not retained.
Return ==
    /\ pc = "done"
    /\ pc' = "idle"
    /\ input' = NoInput
    /\ output' = NoOutput

\* The caller comes with its next input.
Call ==
    /\ pc = "idle"
    /\ input' \in Inputs
    /\ pc' = "ready"
    /\ UNCHANGED output

Next ==
    \/ HandleInitialize
    \/ HandleDefinition
    \/ NewInitialize
    \/ NewGetDefinition
    \/ NewInitialized
    \/ Return
    \/ Call

Spec == Init /\ [][Next]_vars

(***************************************************************************)
(* Vocabulary of the properties.                                           *)
(***************************************************************************)
DefinitionDone == pc = "done" /\ input.op = "handle_definition"
InitializeDone == pc = "done" /\ input.op = "handle_initialize"

IsServerError(o) == ~o.ok /\ o.err.msg = ServerErrorMsg
IsNotFound(o) == ~o.ok /\ o.err.msg = NotFoundMsg
IsMalformedResult(o) == ~o.ok /\ o.err.msg = MalformedMsg

\* The wire shapes of the data model, read off the JSON value itself: a
\* Location is an object with a string `uri` and a `range` object, whose
\* `start` and `end` are objects with unsigned 32-bit `line` and `character`.
IsU32Json(v) == v.t = "num" /\ v.hi = 0 /\ v.v >= 0

IsPositionObject(v) ==
    /\ v.t = "obj"
    /\ {"line", "character"} \subseteq DOMAIN v.v
    /\ IsU32Json(v.v.line)
    /\ IsU32Json(v.v.character)

IsRangeObject(v) ==
    /\ v.t = "obj"
    /\ {"start", "end"} \subseteq DOMAIN v.v
    /\ IsPositionObject(v.v.start)
    /\ IsPositionObject(v.v.end)

IsLocationObject(v) ==
    /\ v.t = "obj"
    /\ {"uri", "range"} \subseteq DOMAIN v.v
    /\ v.v.uri.t = "str"
    /\ IsRangeObject(v.v.range)

IsLocationArray(v) ==
    /\ v.t = "arr"
    /\ \A i \in 1..Len(v.v) : IsLocationObject(v.v[i])

PositionOf(v) == [line |-> v.v.line.v, character |-> v.v.character.v]

LocationOf(v) ==
    [uri |-> v.v.uri.v,
     range |-> [start |-> PositionOf(v.v.range.v.start),
                end |-> PositionOf(v.v.range.v.end)]]

(***************************************************************************)
(* C1.  Whenever handle_definition has run on a response whose error is    *)
(* present (Some of any value, JSON null included), whatever its result,   *)
(* it has failed with the server error carrying that error; it has not     *)
(* returned locations, "No definition found." or the parse failure.        *)
(***************************************************************************)
C1_ErrorTakesPrecedence ==
    (DefinitionDone /\ is_some(input.self.error)) =>
        /\ output = bail(ServerErrorMsg, input.self.error)
        /\ IsServerError(output)
        /\ ~output.ok /\ ~IsNotFound(output) /\ ~IsMalformedResult(output)

\* A null error next to a well-formed Location result: the server error wins.
C1_Witness ==
    /\ DefinitionDone
    /\ input.self.error = Some(Null)
    /\ input.self.result = Some(LocA)
    /\ IsServerError(output)

(***************************************************************************)
(* C2.  With no error, handle_definition on an absent result and on a      *)
(* result that is JSON null fails with "No definition found."; it never    *)
(* returns the empty sequence of locations for them.                       *)
(***************************************************************************)
C2_AbsentOrNullIsNotFound ==
    (/\ DefinitionDone
     /\ ~is_some(input.self.error)
     /\ input.self.result \in {None, Some(Null)}) =>
        /\ output = bail(NotFoundMsg, None)
        /\ output # Ok(<<>>)

C2_Witness ==
    /\ DefinitionDone
    /\ input.self.error = None
    /\ input.self.result = Some(Null)
    /\ IsNotFound(output)

(***************************************************************************)
(* C3.  With no error and a non-null result that is a single Location,     *)
(* handle_definition returns a sequence of exactly one element, that       *)
(* location: the same uri and the same start and end line and character    *)
(* as written in the result.                                               *)
(***************************************************************************)
C3_SingleLocation ==
    (/\ DefinitionDone
     /\ ~is_some(input.self.error)
     /\ is_some(input.self.result)
     /\ ~is_null(input.self.result.val)) =>
        LET res == input.self.result.val IN
        /\ IsLocationObject(res) =>
                output.ok /\ Len(output.val) = 1 /\ output.val[1] = LocationOf(res)
        /\ from_value_Location(res).ok =>
                output = Ok(<<from_value_Location(res).val>>)

\* A Location whose start and end differ in line and in character.
C3_Witness ==
    /\ DefinitionDone
    /\ input.self.error = None
    /\ input.self.result = Some(LocB)
    /\ output = Ok(<<Location("file:///b", Range(Position(0, 1), Position(1, 0)))>>)

(***************************************************************************)
(* C4.  With no error and a result that is an array of n >= 0 Location     *)
(* objects, handle_definition returns exactly those n locations in the     *)
(* order of the array; the empty array gives the empty sequence, not a     *)
(* failure.                                                                *)
(***************************************************************************)
C4_ArrayOfLocations ==
    (/\ DefinitionDone
     /\ ~is_some(input.self.error)
     /\ is_some(input.self.result)
     /\ IsLocationArray(input.self.result.val)) =>
        LET arr == input.self.result.val.v IN
        /\ output.ok
        /\ Len(output.val) = Len(arr)
        /\ \A i \in 1..Len(arr) : output.val[i] = LocationOf(arr[i])
        /\ (arr = <<>> => output = Ok(<<>>))

\* Two different locations, in an order that is not the sorted one.
C4_Witness ==
    /\ DefinitionDone
    /\ input.self.error = None
    /\ input.self.result = Some(Array(<<LocB, LocA>>))
    /\ output.ok
    /\ Len(output.val) = 2
    /\ output.val[1].uri = "file:///b"
    /\ output.val[2].uri = "file:///a"

(***************************************************************************)
(* C5.  With no error and a non-null result, handle_definition fails with  *)
(* the parse failure exactly when the result is neither a Location object  *)
(* nor an array of Location objects (an object of another shape, a scalar, *)
(* an array with an element that is not a Location).                       *)
(***************************************************************************)
C5_MalformedIffNeitherShape ==
    (/\ DefinitionDone
     /\ ~is_some(input.self.error)
     /\ is_some(input.self.result)
     /\ ~is_null(input.self.result.val)) =>
        LET res == input.self.result.val IN
        IsMalformedResult(output) <=> (~IsLocationObject(res) /\ ~IsLocationArray(res))

(***************************************************************************)
(* C6.  handle_initialize succeeds for every response without an error,    *)
(* whatever its result and id, and fails with the server error for every   *)
(* response with an error: the outcome is a function of the error alone.   *)
(***************************************************************************)
C6_InitializeDependsOnErrorOnly ==
    InitializeDone =>
        /\ ~is_some(input.self.error) => output = Ok(<<>>)
        /\ is_some(input.self.error) => output = bail(ServerErrorMsg, input.self.error)
        /\ output = handle_initialize(ResponseMessage(None, None, input.self.error))

\* No error and no result at all: still a success.
C6_Witness ==
    /\ InitializeDone
    /\ input.self.error = None
    /\ input.self.result = None
    /\ input.self.id = None
    /\ output.ok

(***************************************************************************)
(* C7.  For every input, new_initialize returns a request whose method is  *)
(* "initialize", whose id is the input id and whose params.capabilities is *)
(* the one fixed capability tree, the same for all inputs.                 *)
(***************************************************************************)
ExpectedCapabilities ==
    Object([workspace |->
                Object([workspaceFolders |-> Bool(TRUE),
                        didChangeConfiguration |-> Object([dynamicRegistration |-> Bool(TRUE)]),
                        workspaceEdit |-> Object([documentChanges |-> Bool(TRUE)]),
                        configuration |-> Bool(TRUE)]),
            textDocument |->
                Object([hover |-> Object([contentFormat |-> Array(<<String("plaintext")>>)]),
                        completion |->
                            Object([completionItem |-> Object([snippetSupport |-> Bool(TRUE)])]),
                        codeAction |->
                            Object([codeActionLiteralSupport |->
                                Object([codeActionKind |->
                                    Object([valueSet |->
                                        Array(<<String("source.organizeImports"),
                                                String("refactor.rewrite"),
                                                String("refactor.extract")>>)])])])])])

C7_InitializeRequest ==
    (pc = "done" /\ input.op = "new_initialize") =>
        LET wire == to_value_RequestMessage(output).v IN
        /\ output.method = "initialize"
        /\ wire.method = String("initialize")
        /\ wire.id = Number(input.id)
        /\ wire.params.v.capabilities = ExpectedCapabilities
        /\ \A i \in InitializeInputs :
                    new_initialize(i.id, i.process_id, i.root_uri, i.client_name,
                                   i.client_version, i.workspace_folders)
                        .params.v.capabilities = output.params.v.capabilities

\* A call with the largest id and no workspace folder.
C7_Witness ==
    /\ pc = "done"
    /\ input.op = "new_initialize"
    /\ input.id = MaxId
    /\ input.workspace_folders = <<>>
    /\ input.client_name = "vim-go"
    /\ output.id = Number(MaxId)
    /\ output.params.v.workspaceFolders = Array(<<>>)

(***************************************************************************)
(* C8.  new_initialized always returns a notification that serializes to   *)
(* exactly jsonrpc = "2.0", method = "initialized", params = {}: three     *)
(* keys, no `id` key and no `notification` key.                            *)
(***************************************************************************)
C8_InitializedNotification ==
    (pc = "done" /\ input.op = "new_initialized") =>
        LET wire == to_value_NotificationMessage(output) IN
        /\ wire = Object([jsonrpc |-> String("2.0"),
                          method |-> String("initialized"),
                          params |-> Object(EmptyMap)])
        /\ DOMAIN wire.v = {"jsonrpc", "method", "params"}
        /\ "id" \notin DOMAIN wire.v
        /\ "notification" \notin DOMAIN wire.v
        /\ DOMAIN wire.v.params.v = {}

C8_Witness ==
    /\ pc = "done"
    /\ input.op = "new_initialized"
    /\ output.method = "initialized"

(***************************************************************************)
(* C9.  For every id, uri and position, new_get_definition returns a       *)
(* request with method "textDocument/definition", jsonrpc "2.0", the       *)
(* notification marker 0 and the input id, whose params carry the input    *)
(* uri, line and character unchanged, each in its own place.               *)
(***************************************************************************)
C9_GetDefinitionRequest ==
    (pc = "done" /\ input.op = "new_get_definition") =>
        LET wire == to_value_RequestMessage(output).v IN
        /\ DOMAIN wire = {"jsonrpc", "id", "notification", "method", "params"}
        /\ wire.method = String("textDocument/definition")
        /\ wire.jsonrpc = String("2.0")
        /\ wire.notification = Number(0)
        /\ wire.id = Number(input.id)
        /\ wire.params = Object([textDocument |-> Object([uri |-> String(input.uri)]),
                                 position |->
                                    Object([line |-> Number(input.position.line),
                                            character |-> Number(input.position.character)])])
        /\ wire.params.v.position.v.line.v = input.position.line
        /\ wire.params.v.position.v.character.v = input.position.character

\* A position whose line and character differ.
C9_Witness ==
    /\ pc = "done"
    /\ input.op = "new_get_definition"
    /\ input.position = Position(0, 1)
    /\ input.uri = "file://path/to/code/main.go"
    /\ output.params.v.position.v.line = Number(0)
    /\ output.params.v.position.v.character = Number(1)

(***************************************************************************)
(* C10.  The two decode attempts of handle_definition never overlap: a     *)
(* JSON array never decodes as the single Location, a JSON object never    *)
(* decodes as the sequence of Location, no value is accepted by both, and  *)
(* trying the sequence first gives the same outcome for every response.    *)
(***************************************************************************)
handle_definition_SequenceFirst(self) ==
    IF is_some(self.error) THEN bail(ServerErrorMsg, self.error)
    ELSE IF is_some(self.result)
    THEN LET res == self.result.val IN
         IF is_null(res) THEN bail(NotFoundMsg, None)
         ELSE LET location == from_value_Location(res)
                  locations == from_value_Vec_Location(res)
              IN  IF locations.ok THEN Ok(locations.val)
                  ELSE IF location.ok THEN Ok(<<location.val>>)
                  ELSE bail(MalformedMsg, None)
    ELSE bail(NotFoundMsg, None)

C10_DecodeAttemptsNeverOverlap ==
    (DefinitionDone /\ is_some(input.self.result)) =>
        LET res == input.self.result.val IN
        /\ res.t = "arr" => ~from_value_Location(res).ok
        /\ res.t = "obj" => ~from_value_Vec_Location(res).ok
        /\ ~(from_value_Location(res).ok /\ from_value_Vec_Location(res).ok)
        /\ output = handle_definition_SequenceFirst(input.self)

\* What is left of C10 once arrays of the two fields are accepted as a
\* Location: no value is accepted by both attempts, so the order of the
\* attempts does not change the outcome.
DecodeOrderIrrelevant ==
    (DefinitionDone /\ is_some(input.self.result)) =>
        LET res == input.self.result.val IN
        /\ res.t = "obj" => ~from_value_Vec_Location(res).ok
        /\ ~(from_value_Location(res).ok /\ from_value_Vec_Location(res).ok)
        /\ output = handle_definition_SequenceFirst(input.self)

====
